---------------------------- MODULE Spec2Model ----------------------------
(***************************************************************************)
(* Model of SecureIoT-VIF Community Edition's serial log verification      *)
(* (tests/test_community_features.py) and of its flash tool.               *)
(*                                                                         *)
(* Text is a sequence of Unicode code points, a byte string a sequence of  *)
(* integers 0..255.  A regular pattern of the program is a sequence of     *)
(* literal alternatives (every pattern the program uses is a literal or    *)
(* an alternation of literals, e.g. r"Anomalie|seuils fixes").             *)
(***************************************************************************)
EXTENDS Integers, Sequences, FiniteSets, TLC

(***************************************************************************)
(* Bounds of the model.                                                    *)
(***************************************************************************)
MaxStream == 3

MaxTimeout == 2

VARIABLES
    \* read_serial_until_pattern: one call
    pattern,     \* the pattern argument
    timeout,     \* the timeout argument, in clock ticks
    stream,      \* bytes the device has still to send
    in_waiting,  \* bytes received by the port and not read yet (ser.in_waiting)
    buffer,      \* the local 'buffer': decoded text accumulated so far
    elapsed,     \* time.time() - start_time, in clock ticks
    wpc,         \* "loop" | "found" (line 47) | "timeout" (line 49) | "raised"
    result,      \* the returned value
    chunks,      \* history: the byte chunks returned by ser.read, in order
    \* one test method (scenario) run against one device log
    test,        \* the test method's name
    device_text, \* the text the device sends during the wait, as tokens
    log,         \* what read_serial_until_pattern returned (boot_log, sensor_log, ...)
    spc,         \* "idle" | "wait" | "body" | "done"
    apc,         \* index of the next statement of the body
    evaluated,   \* results of the statements evaluated so far, in order
    outcome,     \* "none" | "pass" | "fail" (AssertionError) | "error" (other exception)
    \* one run of the suite (run_community_tests, then exit)
    idx,         \* index in TestNames of the current test
    rpc,         \* "idle" | "setUp" | "test" | "tearDown" | "summary" | "exit" | "done"
    ser,         \* self.ser of each test started so far, in order:
                 \* "unset" (no attribute) | "open" | "closed"
    device,      \* the serial port of the device: "present" | "absent"
    failures,    \* result.failures: the tests whose assertion failed
    errors,      \* result.errors: the tests that raised, with the exception
    skipped,     \* result.skipped
    testsRun,    \* result.testsRun
    verdict,     \* history: the verdict of each test started so far, in order
    report,      \* the summary (lines 245-253) has been printed
    success,     \* the value run_community_tests returned
    exit_code,   \* the process's exit status, -1 while it runs
    \* one invocation of the flash tool (tools/flash_tool_community.py)
    action,      \* args.action
    auto_config, \* args.auto_config
    port,        \* args.port, "none" while not given
    fpc,         \* "idle" | "call" (main calls the function) | "child" (the
                 \* command runs) | "returned" (run_command, lines 20-28) |
                 \* "rest" (after run_command) | "detect_port" | "exited"
    fstep,       \* index of the function in the action's, 0: check_environment
    issued,      \* history: the commands run_command has run, with their status
    status       \* the tool's exit status, -1 while it runs

waitVars == <<pattern, timeout, stream, in_waiting, buffer, elapsed, wpc, result, chunks>>

scenVars == <<test, device_text, log, spc, apc, evaluated, outcome>>

runVars == <<idx, rpc, ser, device, failures, errors, skipped, testsRun, verdict,
             report, success, exit_code>>

flashVars == <<action, auto_config, port, fpc, fstep, issued, status>>

vars == <<waitVars, scenVars, runVars, flashVars>>

(***************************************************************************)
(* Sequences.                                                              *)
(***************************************************************************)
SeqsUpTo(S, n) == UNION {[1..k -> S] : k \in 0..n}

RECURSIVE Flatten(_)
Flatten(ss) == IF ss = <<>> THEN <<>> ELSE Head(ss) \o Flatten(Tail(ss))

Drop(s, n) == SubSeq(s, n + 1, Len(s))

(***************************************************************************)
(* bytes.decode('utf-8', errors='ignore'): a well-formed UTF-8 sequence    *)
(* becomes its code point, every byte that starts none is dropped.         *)
(***************************************************************************)
IsCont(b) == b >= 128 /\ b <= 191

\* the range the second byte of a sequence must lie in, by lead byte
SecondOk(lead, b) ==
    CASE lead = 224 -> b >= 160 /\ b <= 191
      [] lead = 237 -> b >= 128 /\ b <= 159
      [] lead = 240 -> b >= 144 /\ b <= 191
      [] lead = 244 -> b >= 128 /\ b <= 143
      [] OTHER      -> IsCont(b)

\* length of the well-formed sequence starting s, 0 when there is none
SeqLen(s) ==
    LET b == s[1] IN
    IF b < 128 THEN 1
    ELSE IF b >= 194 /\ b <= 223
         THEN IF Len(s) >= 2 /\ IsCont(s[2]) THEN 2 ELSE 0
    ELSE IF b >= 224 /\ b <= 239
         THEN IF Len(s) >= 3 /\ SecondOk(b, s[2]) /\ IsCont(s[3]) THEN 3 ELSE 0
    ELSE IF b >= 240 /\ b <= 244
         THEN IF Len(s) >= 4 /\ SecondOk(b, s[2]) /\ IsCont(s[3]) /\ IsCont(s[4])
              THEN 4 ELSE 0
    ELSE 0

CodePoint(s, n) ==
    CASE n = 1 -> s[1]
      [] n = 2 -> (s[1] - 192) * 64 + (s[2] - 128)
      [] n = 3 -> (s[1] - 224) * 4096 + (s[2] - 128) * 64 + (s[3] - 128)
      [] n = 4 -> (s[1] - 240) * 262144 + (s[2] - 128) * 4096
                  + (s[3] - 128) * 64 + (s[4] - 128)

RECURSIVE decode(_)
decode(bytes) ==
    IF bytes = <<>> THEN <<>>
    ELSE LET n == SeqLen(bytes) IN
         IF n = 0 THEN decode(Tail(bytes))
         ELSE <<CodePoint(bytes, n)>> \o decode(Drop(bytes, n))

(***************************************************************************)
(* re.search(pattern, text, re.MULTILINE) for a pattern that is a sequence *)
(* of literal alternatives: the leftmost position where an alternative     *)
(* matches and, there, the first alternative in order.  The patterns have  *)
(* no ^ or $, so re.MULTILINE changes nothing.                             *)
(***************************************************************************)
NoMatch == [start |-> -1, end |-> -1]

LiteralAt(lit, text, i) ==
    /\ i + Len(lit) <= Len(text)
    /\ SubSeq(text, i + 1, i + Len(lit)) = lit

AltsAt(pat, text, i) == {k \in 1..Len(pat) : LiteralAt(pat[k], text, i)}

Min(S) == CHOOSE x \in S : \A y \in S : x <= y

re_search(pat, text) ==
    LET starts == {i \in 0..Len(text) : AltsAt(pat, text, i) # {}} IN
    IF starts = {} THEN NoMatch
    ELSE LET i == Min(starts)
             k == Min(AltsAt(pat, text, i))
         IN [start |-> i, end |-> i + Len(pat[k])]

\* m.group(0)
group0(m, text) == SubSeq(text, m.start + 1, m.end)

\* 'needle in text' on str
In(needle, text) == \E i \in 0..Len(text) : LiteralAt(needle, text, i)

(***************************************************************************)
(* read_serial_until_pattern (lines 36-49).                                *)
(***************************************************************************)
\* bytes of the model's streams: 'a', and the two bytes of 'é' (U+00E9)
Bytes == {97, 195, 169}

Patterns == { << <<97>> >>, << <<233>> >>, << <<97, 233>> >>, << <<233, 97>>, <<97, 97>> >> }

\* line 44: buffer += data
Appended(buf, data) == buf \o data

\* line 47: return buffer
FoundValue_match(pat, buf) == group0(re_search(pat, buf), buf)

FoundValue(pat, buf) == buf

\* line 49: return buffer
TimeoutValue_empty(buf) == <<>>

TimeoutValue(buf) == buf

\* the variables of a test method while none runs
IdleScenario ==
    /\ test = "none"
    /\ device_text = <<>>
    /\ log = <<>>
    /\ spc = "idle"
    /\ apc = 0
    /\ evaluated = <<>>
    /\ outcome = "none"

\* the variables of the run while no run is modelled
IdleRun ==
    /\ idx = 0
    /\ rpc = "idle"
    /\ ser = <<>>
    /\ device = "present"
    /\ failures = <<>>
    /\ errors = <<>>
    /\ skipped = <<>>
    /\ testsRun = 0
    /\ verdict = <<>>
    /\ report = FALSE
    /\ success = FALSE
    /\ exit_code = -1

\* the variables of read_serial_until_pattern while no call is modelled
IdleWait ==
    /\ pattern = <<>>
    /\ timeout = 0
    /\ stream = <<>>
    /\ in_waiting = <<>>
    /\ buffer = <<>>
    /\ elapsed = 0
    /\ wpc = "idle"
    /\ result = <<>>
    /\ chunks = <<>>

\* the variables of the flash tool while it does not run
IdleFlash ==
    /\ action = "none"
    /\ auto_config = FALSE
    /\ port = "none"
    /\ fpc = "idle"
    /\ fstep = 0
    /\ issued = <<>>
    /\ status = -1

InitWait ==
    /\ pattern \in Patterns
    /\ timeout \in 1..MaxTimeout
    /\ stream \in SeqsUpTo(Bytes, MaxStream)
    /\ in_waiting = <<>>
    /\ buffer = <<>>
    /\ elapsed = 0
    /\ wpc = "loop"
    /\ result = <<>>
    /\ chunks = <<>>
    /\ IdleScenario
    /\ IdleRun
    /\ IdleFlash

\* the device sends its next n bytes
DeviceSends ==
    /\ wpc = "loop"
    /\ \E n \in 1..Len(stream) :
        /\ in_waiting' = in_waiting \o SubSeq(stream, 1, n)
        /\ stream' = Drop(stream, n)
    /\ UNCHANGED <<pattern, timeout, buffer, elapsed, wpc, result, chunks>>
    /\ UNCHANGED <<scenVars, runVars, flashVars>>

\* the clock advances
Tick ==
    /\ wpc = "loop"
    /\ elapsed < timeout
    /\ elapsed' = elapsed + 1
    /\ UNCHANGED <<pattern, timeout, stream, in_waiting, buffer, wpc, result, chunks>>
    /\ UNCHANGED <<scenVars, runVars, flashVars>>

\* lines 41-47: an iteration that finds bytes waiting
wait_read ==
    /\ wpc = "loop"
    /\ elapsed < timeout
    /\ in_waiting # <<>>
    /\ LET data == decode(in_waiting)
           buf  == Appended(buffer, data)
       IN /\ buffer' = buf
          /\ IF re_search(pattern, buf) # NoMatch
             THEN wpc' = "found" /\ result' = FoundValue(pattern, buf)
             ELSE UNCHANGED <<wpc, result>>
    /\ chunks' = Append(chunks, in_waiting)
    /\ in_waiting' = <<>>
    /\ UNCHANGED <<pattern, timeout, stream, elapsed>>
    /\ UNCHANGED <<scenVars, runVars, flashVars>>

\* lines 41-42: an iteration that finds nothing waiting
wait_idle ==
    /\ wpc = "loop"
    /\ elapsed < timeout
    /\ in_waiting = <<>>
    /\ UNCHANGED <<waitVars, scenVars, runVars, flashVars>>

\* a loop that never looks at the clock (while True:)
wait_expire_never ==
    /\ wpc = "loop"
    /\ FALSE
    /\ UNCHANGED vars

\* lines 41, 49: the loop condition fails
wait_expire ==
    /\ wpc = "loop"
    /\ elapsed >= timeout
    /\ wpc' = "timeout"
    /\ result' = TimeoutValue(buffer)
    /\ UNCHANGED <<pattern, timeout, stream, in_waiting, buffer, elapsed, chunks>>
    /\ UNCHANGED <<scenVars, runVars, flashVars>>

\* line 42: the port is gone, ser.in_waiting raises
wait_raise ==
    /\ wpc = "loop"
    /\ elapsed < timeout
    /\ wpc' = "raised"
    /\ UNCHANGED <<pattern, timeout, stream, in_waiting, buffer, elapsed, result, chunks>>
    /\ UNCHANGED <<scenVars, runVars, flashVars>>

NextWait ==
    \/ DeviceSends
    \/ Tick
    \/ wait_read
    \/ wait_idle
    \/ wait_expire
    \/ wait_raise

SpecWait == InitWait /\ [][NextWait]_vars

\* a call during which the port stays up: whatever the device sends (nothing,
\* text without the pattern, bytes at every poll until the deadline), the
\* steps are those of the loop
NextPoll ==
    \/ DeviceSends
    \/ Tick
    \/ wait_read
    \/ wait_idle
    \/ wait_expire

\* time advances (time.time() grows), and the interpreter goes on running the
\* loop: once the condition of line 41 is false, the function returns (line 49)
SpecPoll ==
    /\ InitWait
    /\ [][NextPoll]_vars
    /\ WF_vars(Tick)
    /\ WF_vars(wait_expire)

(***************************************************************************)
(* Properties of read_serial_until_pattern.                                *)
(***************************************************************************)
\* the text of the chunks read, each decoded on its own, in order
RECURSIVE ConcatDecoded(_)
ConcatDecoded(cs) ==
    IF cs = <<>> THEN <<>> ELSE decode(Head(cs)) \o ConcatDecoded(Tail(cs))

Front(s) == SubSeq(s, 1, Len(s) - 1)

C2_TimeoutReturnsAccumulated ==
    wpc = "timeout" =>
        /\ result = ConcatDecoded(chunks)
        /\ result = buffer
        /\ re_search(pattern, result) = NoMatch
        /\ elapsed >= timeout

\* a timed-out wait that read text in several chunks
C2_Witness ==
    /\ wpc = "timeout"
    /\ Len(chunks) >= 2
    /\ Len(result) >= 2

\* C3: however the byte stream is divided into reads, the accumulated text is
\* the text of the bytes read so far, and a signal present in those bytes is
\* found.
C3_ChunkingIndependent ==
    wpc \in {"loop", "found", "timeout"} =>
        /\ buffer = decode(Flatten(chunks))
        /\ re_search(pattern, decode(Flatten(chunks))) # NoMatch => wpc = "found"

\* C11: whatever the stream does (no data, data that never matches, data at
\* every poll), a wait whose port stays up eventually returns, found or timed
\* out; it returns as soon as its deadline has passed: no iteration reads
\* after the deadline, and a wait still looping at its deadline returns as
\* timed out.
C11_WaitEventuallyReturns ==
    /\ <>(wpc \in {"found", "timeout"})
    /\ [][elapsed >= timeout => (chunks' = chunks /\ buffer' = buffer)]_vars
    /\ (wpc = "loop" /\ elapsed >= timeout) ~> (wpc = "timeout")

\* a wait that returned at its deadline while the device had sent bytes it
\* never read and had more to send
C11_Witness ==
    /\ wpc = "timeout"
    /\ elapsed = timeout
    /\ in_waiting # <<>>
    /\ stream # <<>>
    /\ chunks # <<>>

(***************************************************************************)
(* The test methods (lines 51-230).                                        *)
(*                                                                         *)
(* Log text is a sequence of tokens; a token is a piece of text the model  *)
(* never divides, and a phrase of the program is the sequence of tokens    *)
(* that spells it ("Community Edition Opérationnel" is the token           *)
(* "Community Edition" followed by " Opérationnel").  'x in log' and       *)
(* re.search are then the same searches as on characters.  A test method   *)
(* is the sequence of the results of its statements on the log the wait    *)
(* returned; it runs them in order and stops at the first that raises.     *)
(***************************************************************************)
NL == "\n"

\* phrases of the program
CommunityEdition == <<"Community Edition">>

Demarrage == <<"Démarrage SecureIoT-VIF ", "Community Edition">>

CryptoInitialise == <<"Crypto de base initialisé">>

IntegriteInitiale == <<"Vérification intégrité initiale réussie">>

GestionnaireCapteurs == <<"Gestionnaire de capteurs Community initialisé">>

Operationnel == <<"Community Edition", " Opérationnel">>

InitialisationCrypto == <<"Initialisation crypto de base Community">>

VersionEducativeCrypto == <<"Version ", "éducative", " - Crypto software seulement">>

HSM == <<"Hardware Security Module">>

TRNG == <<"TRNG">>

VerificationIntegrite == <<"Vérification d'intégrité">>

VerificationIntegriteBasique == <<"Vérification d'intégrité", " basique">>

TempsReel == <<"temps réel">>

Attestation == <<"attestation">>

Echantillonnage == <<"Échantillonnage">>

ChunksSur == <<"chunks sur">>

DonneesCapteur == <<"Données capteur:">>

SeuilsFixes == <<"seuils fixes">>

Anomalie == <<"Anomalie">>

AnomalieDetectee == <<"Anomalie", " détectée">>

ML == <<"ML">>

Adaptatif == <<"adaptatif">>

NonDisponible == <<"non disponible">>

Enterprise == <<"Enterprise">>

PasDe == <<"pas de">>

Ms == <<"ms">>

Duree == <<"durée">>

\* lines 165-174
enterprise_features ==
    << TempsReel, HSM, TRNG, <<"attestation", " continue">>, <<"ML", " ", "adaptatif">>,
       <<"eFuse">>, <<"Secure Boot v2">>, <<"Flash Encryption">> >>

\* lines 195-202; the last is the graduation cap emoji, U+1F393
educational_messages ==
    << CommunityEdition, <<"éducative">>, <<"apprentissage">>,
       <<"Version ", "éducative">>, <<"Idéal pour">>, <<"U+1F393">> >>

\* str.lower(), on the tokens that have upper case forms in the model's logs
LowerToken(tok) ==
    CASE tok = "Pas de" -> "pas de"
      [] tok = "PAS DE" -> "pas de"
      [] OTHER -> tok

lower(text) == [i \in 1..Len(text) |-> LowerToken(text[i])]

\* tokens the class [\d.-]+ matches whole, and float() of each, in tenths;
\* float() raises ValueError on the others
NumberTokens == {"23.5", "150.0", "-40.0", "80.0", "-40.5", "45.0", "100.0", "100.5", "-", "1.2.3"}

IsFloat(tok) == tok \in {"23.5", "150.0", "-40.0", "80.0", "-40.5", "45.0", "100.0", "100.5"}

float10(tok) ==
    CASE tok = "23.5" -> 235
      [] tok = "150.0" -> 1500
      [] tok = "-40.0" -> -400
      [] tok = "80.0" -> 800
      [] tok = "-40.5" -> -405
      [] tok = "45.0" -> 450
      [] tok = "100.0" -> 1000
      [] tok = "100.5" -> 1005
      [] OTHER -> 0

\* tokens \d+ matches whole, and int() of each
DigitTokens == {"120", "4999", "5000", "9000"}

int(tok) ==
    CASE tok = "120" -> 120
      [] tok = "4999" -> 4999
      [] tok = "5000" -> 5000
      [] tok = "9000" -> 9000
      [] OTHER -> 0

\* line 120: re.search(r"T=([\d.-]+)°C, H=([\d.-]+)%", sensor_log): the
\* leftmost match as its two groups, <<>> for None
ReadingAt(text, i) ==
    /\ i + 5 <= Len(text)
    /\ text[i + 1] = "T="
    /\ text[i + 2] \in NumberTokens
    /\ text[i + 3] = "°C, H="
    /\ text[i + 4] \in NumberTokens
    /\ text[i + 5] = "%"

reading_match(text) ==
    LET starts == {i \in 0..Len(text) : ReadingAt(text, i)} IN
    IF starts = {} THEN <<>>
    ELSE LET i == Min(starts) IN <<text[i + 2], text[i + 4]>>

\* line 220: re.findall(r"(\d+) ?ms", metrics_log): the numbers, in order
TimingAt(text, i) ==
    /\ text[i] \in DigitTokens
    /\ \/ i + 1 <= Len(text) /\ text[i + 1] = "ms"
       \/ i + 2 <= Len(text) /\ text[i + 1] = " " /\ text[i + 2] = "ms"

RECURSIVE findall_ms(_, _)
findall_ms(text, i) ==
    IF i > Len(text) THEN <<>>
    ELSE IF TimingAt(text, i) THEN <<int(text[i])>> \o findall_ms(text, i + 1)
    ELSE findall_ms(text, i + 1)

RECURSIVE sum(_)
sum(ns) == IF ns = <<>> THEN 0 ELSE Head(ns) + sum(Tail(ns))

\* the result of one statement: "ok", "fail" (AssertionError), "error" (ValueError)
assertIn(needle, text) == IF In(needle, text) THEN "ok" ELSE "fail"

assertNotIn(needle, text) == IF In(needle, text) THEN "fail" ELSE "ok"

assertTrue(b) == IF b THEN "ok" ELSE "fail"

to_float(tok) == IF IsFloat(tok) THEN "ok" ELSE "error"

\* lines 127-130: the DHT22 ranges, and line 226, line 209
TempMin == -40

TempMax == 80

HumidityMin == 0

HumidityMax == 100

AvgTimingLimit == 5000

MinFoundMessages == 2

assertGreaterEqual(x10, bound) == IF x10 >= bound * 10 THEN "ok" ELSE "fail"

assertLessEqual(x10, bound) == IF x10 <= bound * 10 THEN "ok" ELSE "fail"

\* lines 64-68
test_community_boot_sequence(boot_log) ==
    << assertIn(Demarrage, boot_log),
       assertIn(CryptoInitialise, boot_log),
       assertIn(IntegriteInitiale, boot_log),
       assertIn(GestionnaireCapteurs, boot_log),
       assertIn(Operationnel, boot_log) >>

\* lines 79-86
test_community_crypto_basic(boot_log) ==
    << assertIn(InitialisationCrypto, boot_log),
       assertIn(VersionEducativeCrypto, boot_log),
       assertIn(CryptoInitialise, boot_log),
       assertIn(CommunityEdition, boot_log),
       assertNotIn(HSM, boot_log),
       assertNotIn(TRNG, boot_log) >>

\* lines 98-104
test_community_integrity_basic(integrity_log) ==
    << assertIn(VerificationIntegriteBasique, integrity_log),
       assertNotIn(TempsReel, integrity_log),
       assertNotIn(Attestation, integrity_log) >>
    \o (IF In(Echantillonnage, integrity_log)
        THEN << assertIn(ChunksSur, integrity_log) >>
        ELSE <<>>)

\* lines 117-130
test_community_sensor_reading(sensor_log) ==
    << assertIn(DonneesCapteur, sensor_log) >>
    \o (LET groups == reading_match(sensor_log) IN
        IF groups # <<>>
        THEN LET temp == float10(groups[1])
                 humidity == float10(groups[2])
             IN << to_float(groups[1]),
                   to_float(groups[2]),
                   assertGreaterEqual(temp, TempMin),
                   assertLessEqual(temp, TempMax),
                   assertGreaterEqual(humidity, HumidityMin),
                   assertLessEqual(humidity, HumidityMax) >>
        ELSE <<>>)

\* lines 142-150
test_community_anomaly_detection_basic(log_buffer) ==
    (IF In(SeuilsFixes, log_buffer)
     THEN << assertIn(SeuilsFixes, log_buffer) >>
     ELSE <<>>)
    \o (IF In(AnomalieDetectee, log_buffer)
        THEN << assertIn(AnomalieDetectee, log_buffer),
                assertNotIn(ML, log_buffer),
                assertNotIn(Adaptatif, log_buffer) >>
        ELSE <<>>)

\* lines 179-184: the assertion made for a feature present in the log
Qualified(log_buffer) ==
    \/ In(NonDisponible, log_buffer)
    \/ In(Enterprise, log_buffer)
    \/ In(PasDe, lower(log_buffer))

\* lines 176-184
RECURSIVE FeatureLoop(_, _)
FeatureLoop(features, log_buffer) ==
    IF features = <<>> THEN <<>>
    ELSE (IF In(Head(features), log_buffer)
          THEN << assertTrue(Qualified(log_buffer)) >>
          ELSE <<>>)
         \o FeatureLoop(Tail(features), log_buffer)

test_community_no_enterprise_features(log_buffer) ==
    FeatureLoop(enterprise_features, log_buffer)

\* lines 204-209
found_messages(boot_log) ==
    Cardinality({i \in 1..Len(educational_messages) : In(educational_messages[i], boot_log)})

test_community_educational_messages(boot_log) ==
    << assertTrue(found_messages(boot_log) > MinFoundMessages) >>

\* lines 220-226: avg_timing < 5000, avg_timing being sum(timings) / len(timings)
test_community_performance_basic(metrics_log) ==
    LET timings == findall_ms(metrics_log, 1) IN
    IF timings # <<>>
    THEN << assertTrue(sum(timings) < AvgTimingLimit * Len(timings)) >>
    ELSE <<>>

\* the test methods in the order unittest's loader runs them: sorted by name
TestNames ==
    << "test_community_anomaly_detection_basic",
       "test_community_boot_sequence",
       "test_community_crypto_basic",
       "test_community_educational_messages",
       "test_community_integrity_basic",
       "test_community_no_enterprise_features",
       "test_community_performance_basic",
       "test_community_sensor_reading" >>

\* the statements of a test method on the log its wait returned
Body(t, text) ==
    CASE t = "test_community_anomaly_detection_basic" -> test_community_anomaly_detection_basic(text)
      [] t = "test_community_boot_sequence" -> test_community_boot_sequence(text)
      [] t = "test_community_crypto_basic" -> test_community_crypto_basic(text)
      [] t = "test_community_educational_messages" -> test_community_educational_messages(text)
      [] t = "test_community_integrity_basic" -> test_community_integrity_basic(text)
      [] t = "test_community_no_enterprise_features" -> test_community_no_enterprise_features(text)
      [] t = "test_community_performance_basic" -> test_community_performance_basic(text)
      [] t = "test_community_sensor_reading" -> test_community_sensor_reading(text)

\* the pattern a test method waits for (lines 61, 76, 95, 114, 139, 162, 192, 217)
WaitPattern(t) ==
    CASE t = "test_community_anomaly_detection_basic" -> <<Anomalie, SeuilsFixes>>
      [] t = "test_community_boot_sequence" -> <<Operationnel>>
      [] t = "test_community_crypto_basic" -> <<CryptoInitialise>>
      [] t = "test_community_educational_messages" -> <<CommunityEdition>>
      [] t = "test_community_integrity_basic" -> <<VerificationIntegrite>>
      [] t = "test_community_no_enterprise_features" -> <<CommunityEdition>>
      [] t = "test_community_performance_basic" -> <<Ms, Duree>>
      [] t = "test_community_sensor_reading" -> <<DonneesCapteur>>

(***************************************************************************)
(* The logs a device sends: any selection, in order, of the lines below,   *)
(* each ended by a newline.  The wait returns the text read when it ends   *)
(* (read_serial_until_pattern returns the buffer accumulated so far,       *)
(* whether a read completed a match or the deadline passed): some prefix   *)
(* of what the device sends, less the characters its reads divided.        *)
(***************************************************************************)
Reading(t, h) == <<"Données capteur:", " ", "T=", t, "°C, H=", h, "%">>

DeviceLines(t) ==
    CASE t = "test_community_anomaly_detection_basic" ->
            << <<"Détection par ", "seuils fixes">>,
               <<"Anomalie", " détectée">>,
               <<"ML">>,
               <<"Seuil ", "adaptatif">>,
               <<"Anomalie", " capteur">> >>
      [] t = "test_community_boot_sequence" ->
            << Demarrage, CryptoInitialise, IntegriteInitiale,
               GestionnaireCapteurs, Operationnel >>
      [] t = "test_community_crypto_basic" ->
            << Demarrage, InitialisationCrypto, VersionEducativeCrypto,
               <<"TRNG", " logiciel">>, HSM, CryptoInitialise >>
      [] t = "test_community_educational_messages" ->
            << CommunityEdition,
               <<"Version ", "éducative">>,
               <<"apprentissage">>,
               <<"Idéal pour", " étudiants">>,
               <<"U+1F393">> >>
      [] t = "test_community_integrity_basic" ->
            << VerificationIntegriteBasique,
               <<"Vérification d'intégrité", " ", "temps réel">>,
               <<"attestation", " continue">>,
               <<"Échantillonnage", " éducatif">>,
               <<"chunks sur">> >>
      [] t = "test_community_no_enterprise_features" ->
            << <<"SecureIoT-VIF ", "Community Edition">>,
               <<"TRNG", " actif">>,
               <<"TRNG", " ", "non disponible">>,
               <<"Pas de", " ", "eFuse">>,
               <<"Flash Encryption", " activé">>,
               <<"Fonctions ", "Enterprise", " sur demande">> >>
      [] t = "test_community_performance_basic" ->
            << <<"Cycle ", "120", " ", "ms">>,
               <<"Cycle ", "9000", "ms">>,
               <<"durée", " inconnue">>,
               <<"Cycle ", "5000", " ", "ms">> >>
      [] t = "test_community_sensor_reading" ->
            << Reading("23.5", "45.0"),
               Reading("150.0", "45.0"),
               Reading("-40.0", "100.0"),
               Reading("-", "45.0"),
               <<"Données capteur:", " indisponibles">>,
               Reading("80.0", "100.5") >>

\* the lines numbered in S, in order, each followed by a newline
RECURSIVE JoinSelected(_, _, _)
JoinSelected(lines, S, i) ==
    IF i > Len(lines) THEN <<>>
    ELSE (IF i \in S THEN lines[i] \o <<NL>> ELSE <<>>) \o JoinSelected(lines, S, i + 1)

DeviceTexts(t) ==
    {JoinSelected(DeviceLines(t), S, 1) : S \in SUBSET (1..Len(DeviceLines(t)))}

\* line 43: read(...).decode('utf-8', errors='ignore') on each chunk: a
\* character whose bytes are divided between two reads is dropped from the
\* text.  Lost(tok): the token with some of its multi-byte characters dropped
Lost(tok) ==
    CASE tok = " Opérationnel" ->
            {" Oprationnel"}
      [] tok = " activé" ->
            {" activ"}
      [] tok = " détectée" ->
            {" dtectée", " détecte", " dtecte"}
      [] tok = " éducatif" ->
            {" ducatif"}
      [] tok = " étudiants" ->
            {" tudiants"}
      [] tok = "Crypto de base initialisé" ->
            {"Crypto de base initialis"}
      [] tok = "Données capteur:" ->
            {"Donnes capteur:"}
      [] tok = "Démarrage SecureIoT-VIF " ->
            {"Dmarrage SecureIoT-VIF "}
      [] tok = "Détection par " ->
            {"Dtection par "}
      [] tok = "Gestionnaire de capteurs Community initialisé" ->
            {"Gestionnaire de capteurs Community initialis"}
      [] tok = "Idéal pour" ->
            {"Idal pour"}
      [] tok = "U+1F393" ->
            {""}
      [] tok = "Vérification d'intégrité" ->
            {"Vrification d'intégrité", "Vérification d'intgrité", "Vérification d'intégrit", "Vrification d'intgrité", "Vrification d'intégrit", "Vérification d'intgrit", "Vrification d'intgrit"}
      [] tok = "Vérification intégrité initiale réussie" ->
            {"Vrification intégrité initiale réussie", "Vérification intgrité initiale réussie", "Vérification intégrit initiale réussie", "Vérification intégrité initiale russie", "Vrification intgrité initiale réussie", "Vrification intégrit initiale réussie", "Vrification intégrité initiale russie", "Vérification intgrit initiale réussie", "Vérification intgrité initiale russie", "Vérification intégrit initiale russie", "Vrification intgrit initiale réussie", "Vrification intgrité initiale russie", "Vrification intégrit initiale russie", "Vérification intgrit initiale russie", "Vrification intgrit initiale russie"}
      [] tok = "durée" ->
            {"dure"}
      [] tok = "temps réel" ->
            {"temps rel"}
      [] tok = "°C, H=" ->
            {"C, H="}
      [] tok = "Échantillonnage" ->
            {"chantillonnage"}
      [] tok = "éducative" ->
            {"ducative"}
      [] OTHER -> {}

\* the texts read from text, whichever of its characters the reads divide
RECURSIVE Lossy(_)
Lossy(text) ==
    IF text = <<>> THEN {<<>>}
    ELSE {<<v>> \o r : v \in {Head(text)} \cup Lost(Head(text)), r \in Lossy(Tail(text))}

\* what read_serial_until_pattern can return when the device sends d: the
\* text read when it ends, some prefix of d, less the characters dropped
Returned(d) == UNION {Lossy(SubSeq(d, 1, k)) : k \in 0..Len(d)}

TestSet == {TestNames[i] : i \in 1..Len(TestNames)}

\* an assertion that fails raises AssertionError, float() of a bad string
\* raises ValueError: either leaves the test method
Raises_never(r) == FALSE

Raises(r) == r # "ok"

InitScenario ==
    /\ test \in TestSet
    /\ device_text \in DeviceTexts(test)
    /\ log = <<>>
    /\ spc = "wait"
    /\ apc = 0
    /\ evaluated = <<>>
    /\ outcome = "none"
    /\ IdleWait
    /\ IdleRun
    /\ IdleFlash

\* the call of read_serial_until_pattern returns
scenario_wait ==
    /\ spc = "wait"
    /\ log' \in Returned(device_text)
    /\ spc' = "body"
    /\ apc' = 1
    /\ UNCHANGED <<test, device_text, evaluated, outcome>>
    /\ UNCHANGED <<waitVars, runVars, flashVars>>

\* the next statement of the test method
run_statement ==
    /\ spc = "body"
    /\ apc <= Len(Body(test, log))
    /\ LET r == Body(test, log)[apc] IN
       /\ evaluated' = Append(evaluated, r)
       /\ IF Raises(r)
          THEN outcome' = r /\ spc' = "done" /\ apc' = apc
          ELSE apc' = apc + 1 /\ UNCHANGED <<outcome, spc>>
    /\ UNCHANGED <<test, device_text, log>>
    /\ UNCHANGED <<waitVars, runVars, flashVars>>

\* the test method returns
method_returns ==
    /\ spc = "body"
    /\ apc > Len(Body(test, log))
    /\ outcome' = "pass"
    /\ spc' = "done"
    /\ UNCHANGED <<test, device_text, log, apc, evaluated>>
    /\ UNCHANGED <<waitVars, runVars, flashVars>>

NextScenario ==
    \/ scenario_wait
    \/ run_statement
    \/ method_returns

SpecScenario == InitScenario /\ [][NextScenario]_vars

\* the wait of the test method ended on its pattern (not on its deadline)
Found(t, text) == re_search(WaitPattern(t), text) # NoMatch

(***************************************************************************)
(* The run: unittest's runner on the suite (run_community_tests, lines     *)
(* 232-255), then exit (lines 257-259).  For each test method, in order:   *)
(* setUp, the method if setUp did not skip, tearDown.                      *)
(***************************************************************************)
AllOk(stmts) == \A i \in 1..Len(stmts) : stmts[i] = "ok"

FirstRaising(stmts) == Min({i \in 1..Len(stmts) : stmts[i] # "ok"})

\* how a test method ends on a log: it passes, or leaves at its first statement
\* that raises, as a failure (AssertionError) or an error (ValueError)
MethodOutcome(stmts) == IF AllOk(stmts) THEN "pass" ELSE stmts[FirstRaising(stmts)]

\* the logs a wait can return to a test method
WaitResults(t) == UNION {Returned(d) : d \in DeviceTexts(t)}

\* the ways each test method can end while the port stays up
BodyOutcomes == [t \in TestSet |-> {MethodOutcome(Body(t, l)) : l \in WaitResults(t)}]

NumTests == Len(TestNames)

\* lines 28-29: setUp turns serial.SerialException into skipTest
OnSerialException_raise == "error"

OnSerialException == "skip"

\* unittest.TestResult.wasSuccessful (line 246, 255)
wasSuccessful_strict(f, e, s) == f = <<>> /\ e = <<>> /\ s = <<>>

wasSuccessful(f, e, s) == f = <<>> /\ e = <<>>

\* lines 258-259: exit(0 if success else 1)
ExitStatus(ok) == IF ok THEN 0 ELSE 1

\* a tearDown that leaves the session as it is
close_leak(s) == s

\* lines 33-34: if hasattr(self, 'ser'): self.ser.close()
close(s) == IF s = "unset" THEN "unset" ELSE "closed"

InitRun ==
    /\ idx = 1
    /\ rpc = "setUp"
    /\ ser = <<>>
    /\ device \in {"present", "absent"}
    /\ failures = <<>>
    /\ errors = <<>>
    /\ skipped = <<>>
    /\ testsRun = 0
    /\ verdict = <<>>
    /\ report = FALSE
    /\ success = FALSE
    /\ exit_code = -1
    /\ IdleWait
    /\ IdleScenario
    /\ IdleFlash

\* the runner goes on to the next test method, or to the summary after the last
Advance ==
    IF idx < NumTests
    THEN idx' = idx + 1 /\ rpc' = "setUp"
    ELSE idx' = idx /\ rpc' = "summary"

\* the device's port disappears (unplugged, reset)
Unplug ==
    /\ rpc \in {"setUp", "test"}
    /\ device = "present"
    /\ device' = "absent"
    /\ UNCHANGED <<idx, rpc, ser, failures, errors, skipped, testsRun, verdict,
                   report, success, exit_code>>
    /\ UNCHANGED <<waitVars, scenVars, flashVars>>

\* the device's port is back
Replug ==
    /\ rpc = "setUp"
    /\ device = "absent"
    /\ device' = "present"
    /\ UNCHANGED <<idx, rpc, ser, failures, errors, skipped, testsRun, verdict,
                   report, success, exit_code>>
    /\ UNCHANGED <<waitVars, scenVars, flashVars>>

\* lines 23-29: serial.Serial opens the port
setUp_opens ==
    /\ rpc = "setUp"
    /\ device = "present"
    /\ testsRun' = testsRun + 1
    /\ ser' = Append(ser, "open")
    /\ rpc' = "test"
    /\ UNCHANGED <<idx, device, failures, errors, skipped, verdict, report, success, exit_code>>
    /\ UNCHANGED <<waitVars, scenVars, flashVars>>

\* lines 23-29: serial.Serial raises SerialException; the method and tearDown
\* do not run
setUp_unavailable ==
    /\ rpc = "setUp"
    /\ device = "absent"
    /\ testsRun' = testsRun + 1
    /\ ser' = Append(ser, "unset")
    /\ verdict' = Append(verdict, OnSerialException)
    /\ IF OnSerialException = "skip"
       THEN skipped' = Append(skipped, TestNames[idx]) /\ UNCHANGED errors
       ELSE errors' = Append(errors, [test |-> TestNames[idx], exc |-> "SerialException"])
            /\ UNCHANGED skipped
    /\ Advance
    /\ UNCHANGED <<device, failures, report, success, exit_code>>
    /\ UNCHANGED <<waitVars, scenVars, flashVars>>

\* the test method runs to its end: the port is up, or went away after the
\* method's last read (it is not touched again before tearDown)
test_method ==
    /\ rpc = "test"
    /\ \E o \in BodyOutcomes[TestNames[idx]] :
        /\ verdict' = Append(verdict, o)
        /\ failures' = IF o = "fail" THEN Append(failures, TestNames[idx]) ELSE failures
        /\ errors' = IF o = "error"
                     THEN Append(errors, [test |-> TestNames[idx], exc |-> "ValueError"])
                     ELSE errors
    /\ rpc' = "tearDown"
    /\ UNCHANGED <<idx, ser, device, skipped, testsRun, report, success, exit_code>>
    /\ UNCHANGED <<waitVars, scenVars, flashVars>>

\* what the lost port makes the wait raise: self.ser.in_waiting (line 42)
\* raises OSError (the ioctl fails), self.ser.read (line 43) SerialException
PortLost == {"SerialException", "OSError"}

\* the port went away before the end of the method's wait: the exception
\* leaves the method and the runner records an error
test_disconnected ==
    /\ rpc = "test"
    /\ device = "absent"
    /\ verdict' = Append(verdict, "error")
    /\ \E e \in PortLost :
          errors' = Append(errors, [test |-> TestNames[idx], exc |-> e])
    /\ rpc' = "tearDown"
    /\ UNCHANGED <<idx, ser, device, failures, skipped, testsRun, report, success, exit_code>>
    /\ UNCHANGED <<waitVars, scenVars, flashVars>>

\* lines 31-34: the test's session is closed, whatever the test's outcome;
\* the runner then goes on
tearDown ==
    /\ rpc = "tearDown"
    /\ ser' = [ser EXCEPT ![idx] = close(@)]
    /\ Advance
    /\ UNCHANGED <<device, failures, errors, skipped, testsRun, verdict,
                   report, success, exit_code>>
    /\ UNCHANGED <<waitVars, scenVars, flashVars>>

\* lines 244-255: the summary is printed and wasSuccessful() returned
run_community_tests ==
    /\ rpc = "summary"
    /\ report' = TRUE
    /\ success' = wasSuccessful(failures, errors, skipped)
    /\ rpc' = "exit"
    /\ UNCHANGED <<idx, ser, device, failures, errors, skipped, testsRun, verdict, exit_code>>
    /\ UNCHANGED <<waitVars, scenVars, flashVars>>

\* lines 257-259
exit ==
    /\ rpc = "exit"
    /\ exit_code' = ExitStatus(success)
    /\ rpc' = "done"
    /\ UNCHANGED <<idx, ser, device, failures, errors, skipped, testsRun, verdict,
                   report, success>>
    /\ UNCHANGED <<waitVars, scenVars, flashVars>>

NextRun ==
    \/ Unplug
    \/ Replug
    \/ setUp_opens
    \/ setUp_unavailable
    \/ test_method
    \/ test_disconnected
    \/ tearDown
    \/ run_community_tests
    \/ exit

SpecRun == InitRun /\ [][NextRun]_vars

(***************************************************************************)
(* The flash tool (tools/flash_tool_community.py): main (lines 321-379)    *)
(* checks the environment, settles the port, then calls the functions of   *)
(* the action in order.  Every toolchain command goes through run_command  *)
(* (lines 15-28); a command is the sequence of its words, and its exit     *)
(* status is the toolchain's choice.  The files the tool works on are not  *)
(* part of the state: an operation on one succeeds or raises.              *)
(***************************************************************************)
\* line 324: choices of the action argument
Actions == {"build", "flash", "monitor", "all", "config", "test", "clean", "info"}

Ports == {"/dev/ttyUSB0", "/dev/ttyACM0"}

\* result.returncode of subprocess.run (line 18)
ReturnCodes == {0, 1, 2}

\* lines 351-373: the functions main calls for an action, in order
Steps(a) ==
    CASE a = "info"    -> <<"show_version_info">>
      [] a = "config"  -> <<"configure_project">>
      [] a = "build"   -> <<"build_project">>
      [] a = "flash"   -> <<"build_project", "flash_project">>
      [] a = "monitor" -> <<"monitor_project">>
      [] a = "all"     -> <<"configure_project", "build_project", "flash_project",
                            "monitor_project">>
      [] a = "test"    -> <<"run_tests">>
      [] a = "clean"   -> <<"clean_project">>
      [] OTHER         -> <<>>

\* the function main is in, or is about to call; check_environment (line
\* 343) is step 0, before the functions of the action
Current ==
    IF fpc \notin {"call", "child", "returned", "rest"} THEN "none"
    ELSE IF fstep = 0 THEN "check_environment"
    ELSE IF fstep <= Len(Steps(action)) THEN Steps(action)[fstep]
    ELSE "none"

\* a run_command that returns whatever the status
run_command_unchecked(cmd, check, returncode) == "result"

\* lines 25-28: how run_command ends on a command that exited with returncode
run_command(cmd, check, returncode) ==
    IF check /\ returncode # 0 THEN "sys.exit(1)" ELSE "result"

\* sys.exit(code), or the end of the process with that status
sys_exit(code) ==
    /\ fpc' = "exited"
    /\ status' = code
    /\ fstep' = fstep

\* lines 17-18: run_command starts the command; it has no status yet (-1)
Issue(cmd) ==
    /\ fpc = "call"
    /\ issued' = Append(issued, [cmd |-> cmd, returncode |-> -1])
    /\ fpc' = "child"
    /\ UNCHANGED <<fstep, status>>

\* line 18: the command ends with some status; subprocess.run returns it,
\* or (text=True) raises UnicodeDecodeError on output it cannot decode: the
\* process then ends with status 1, through lines 377-379 during the action,
\* with a traceback during check_environment
Wait ==
    /\ fpc = "child"
    /\ \E rc \in ReturnCodes :
          issued' = [issued EXCEPT ![Len(issued)].returncode = rc]
    /\ \/ fpc' = "returned" /\ UNCHANGED <<fstep, status>>
       \/ sys_exit(1)

\* lines 20-28: the output is printed, then run_command exits or returns
Check(check) ==
    /\ fpc = "returned"
    /\ LET c == issued[Len(issued)] IN
       IF run_command(c.cmd, check, c.returncode) = "sys.exit(1)"
       THEN sys_exit(1)
       ELSE fpc' = "rest" /\ UNCHANGED <<fstep, status>>
    /\ UNCHANGED issued

\* the function returns to main, which goes on to the next
Return ==
    /\ fpc' = "call"
    /\ fstep' = fstep + 1
    /\ UNCHANGED <<issued, status>>

\* the function raises (a file it reads, writes or removes): lines 377-379
\* print the error and exit with 1
Raise ==
    /\ sys_exit(1)
    /\ UNCHANGED issued

\* the rest of a function after its command: it returns, or raises if it
\* works on files
Rest(raises) ==
    /\ fpc = "rest"
    /\ \/ Return
       \/ raises /\ Raise

\* a function whose one toolchain command is run_command(cmd), check=True
Toolchain(cmd, raises) ==
    \/ Issue(cmd)
    \/ Wait
    \/ Check(TRUE)
    \/ Rest(raises)

InitFlash ==
    /\ action \in Actions
    /\ auto_config \in BOOLEAN
    /\ port \in Ports \cup {"none"}
    /\ fpc = "call"
    /\ fstep = 0
    /\ issued = <<>>
    /\ status = -1
    /\ IdleWait
    /\ IdleScenario
    /\ IdleRun

\* lines 30-53: run_command("idf.py --version", check=False), exit(1) if it
\* failed (lines 36-39), then main/app_config.h is read (lines 44-53): outside
\* main's try, an exception there ends the process with a traceback, status 1
check_environment ==
    /\ Current = "check_environment"
    /\ \/ Issue(<<"idf.py", "--version">>)
       \/ Wait
       \/ Check(FALSE)
       \/ /\ fpc = "rest"
          /\ IF issued[Len(issued)].returncode # 0
             THEN sys_exit(1)
             ELSE \/ fpc' = "detect_port" /\ UNCHANGED <<fstep, status>>
                  \/ sys_exit(1)
          /\ UNCHANGED issued
    /\ UNCHANGED <<action, auto_config, port>>
    /\ UNCHANGED <<waitVars, scenVars, runVars>>

\* lines 346-348: the port is detected if --auto-port is given or no port is
\* (detect_port, lines 175-204, returns some port)
detect_port ==
    /\ fpc = "detect_port"
    /\ \E auto_port \in BOOLEAN :
        IF auto_port \/ port = "none" THEN port' \in Ports ELSE port' = port
    /\ fpc' = "call"
    /\ fstep' = 1
    /\ UNCHANGED <<action, auto_config, issued, status>>
    /\ UNCHANGED <<waitVars, scenVars, runVars>>

\* lines 55-111: with --auto-config sdkconfig is written (open may raise),
\* else menuconfig is run
configure_project ==
    /\ Current = "configure_project"
    /\ IF auto_config
       THEN fpc = "call" /\ (Return \/ Raise)
       ELSE Toolchain(<<"idf.py", "menuconfig">>, FALSE)
    /\ UNCHANGED <<action, auto_config, port>>
    /\ UNCHANGED <<waitVars, scenVars, runVars>>

\* lines 113-141: the build, then the sizes of the binaries (os.path.getsize
\* may raise)
build_project ==
    /\ Current = "build_project"
    /\ Toolchain(<<"idf.py", "build">>, TRUE)
    /\ UNCHANGED <<action, auto_config, port>>
    /\ UNCHANGED <<waitVars, scenVars, runVars>>

\* lines 143-160
flash_project ==
    /\ Current = "flash_project"
    /\ Toolchain(<<"idf.py", "-p", port, "flash">>, FALSE)
    /\ UNCHANGED <<action, auto_config, port>>
    /\ UNCHANGED <<waitVars, scenVars, runVars>>

\* lines 162-173 (in action "all" after time.sleep(3), line 368)
monitor_project ==
    /\ Current = "monitor_project"
    /\ Toolchain(<<"idf.py", "-p", port, "monitor">>, FALSE)
    /\ UNCHANGED <<action, auto_config, port>>
    /\ UNCHANGED <<waitVars, scenVars, runVars>>

\* lines 206-265: the build, then sdkconfig is read (open may raise)
run_tests ==
    /\ Current = "run_tests"
    /\ Toolchain(<<"idf.py", "build">>, TRUE)
    /\ UNCHANGED <<action, auto_config, port>>
    /\ UNCHANGED <<waitVars, scenVars, runVars>>

\* lines 267-280: the clean, then the temporary files are removed (os.remove
\* may raise)
clean_project ==
    /\ Current = "clean_project"
    /\ Toolchain(<<"idf.py", "clean">>, TRUE)
    /\ UNCHANGED <<action, auto_config, port>>
    /\ UNCHANGED <<waitVars, scenVars, runVars>>

\* lines 282-319: runs no command; main/app_config.h is read (open may raise)
show_version_info ==
    /\ Current = "show_version_info"
    /\ fpc = "call"
    /\ (Return \/ Raise)
    /\ UNCHANGED <<action, auto_config, port>>
    /\ UNCHANGED <<waitVars, scenVars, runVars>>

\* Ctrl-C.  During the action it is caught (lines 375-376) and main returns:
\* status 0, whatever the commands returned.  Before main's try (lines
\* 343-348) it is not caught: the process ends with status 130
KeyboardInterrupt ==
    /\ Current # "none" \/ fpc = "detect_port"
    /\ IF fstep = 0 THEN sys_exit(130) ELSE sys_exit(0)
    /\ UNCHANGED <<action, auto_config, port, issued>>
    /\ UNCHANGED <<waitVars, scenVars, runVars>>

\* lines 381-382: main returns after the last function of the action
main ==
    /\ fpc = "call"
    /\ fstep > Len(Steps(action))
    /\ sys_exit(0)
    /\ UNCHANGED <<action, auto_config, port, issued>>
    /\ UNCHANGED <<waitVars, scenVars, runVars>>

NextFlash ==
    \/ check_environment
    \/ detect_port
    \/ configure_project
    \/ build_project
    \/ flash_project
    \/ monitor_project
    \/ run_tests
    \/ clean_project
    \/ show_version_info
    \/ KeyboardInterrupt
    \/ main

SpecFlash == InitFlash /\ [][NextFlash]_vars

(***************************************************************************)
(* Properties of the test methods.                                         *)
(***************************************************************************)
\* the lines of a text: the token runs between newlines
RECURSIVE SplitLines(_, _)
SplitLines(text, cur) ==
    IF text = <<>> THEN (IF cur = <<>> THEN <<>> ELSE <<cur>>)
    ELSE IF Head(text) = NL THEN <<cur>> \o SplitLines(Tail(text), <<>>)
    ELSE SplitLines(Tail(text), Append(cur, Head(text)))

HasFeature(line) ==
    \E i \in 1..Len(enterprise_features) : In(enterprise_features[i], line)

\* C6: the negative assertion passes when every line naming an Enterprise
\* feature carries an allowed qualifier, and fails when a feature is named on
\* a line with no qualifier on it or on a neighbouring line, even if a
\* qualifier occurs elsewhere in the snapshot.
C6_QualifierNearFeature ==
    (test = "test_community_no_enterprise_features" /\ spc = "done") =>
        LET ls == SplitLines(log, <<>>)
            near(i) == {j \in 1..Len(ls) : j >= i - 1 /\ j <= i + 1}
        IN /\ (\A i \in 1..Len(ls) : HasFeature(ls[i]) => Qualified(ls[i]))
                => outcome = "pass"
           /\ (\E i \in 1..Len(ls) :
                    HasFeature(ls[i]) /\ \A j \in near(i) : ~Qualified(ls[j]))
                => outcome = "fail"

\* the reading can be extracted: the field pattern matches and both fields
\* convert to numbers
Extracted(text) ==
    LET groups == reading_match(text) IN
    groups # <<>> /\ IsFloat(groups[1]) /\ IsFloat(groups[2])

InRange(text) ==
    LET groups == reading_match(text) IN
    /\ float10(groups[1]) >= TempMin * 10
    /\ float10(groups[1]) <= TempMax * 10
    /\ float10(groups[2]) >= HumidityMin * 10
    /\ float10(groups[2]) <= HumidityMax * 10

\* C7: the sensor range assertion passes if and only if the reading can be
\* extracted from the snapshot and every extracted value lies in its inclusive
\* range; a snapshot with no reading does not pass.
C7_PassIffExtractedInRange ==
    (test = "test_community_sensor_reading" /\ spc = "done") =>
        (outcome = "pass" <=> (Extracted(log) /\ InRange(log)))

C9_TimeoutFails ==
    (spc = "done" /\ ~Found(test, log)) => outcome = "fail"

(***************************************************************************)
(* Properties of the run.                                                  *)
(***************************************************************************)
\* the port went away during test i: the runner recorded the exception
DisconnectedIn(i) ==
    /\ verdict[i] = "error"
    /\ \E k \in 1..Len(errors) :
          errors[k].test = TestNames[i] /\ errors[k].exc \in PortLost

SkippedOnly(i) ==
    /\ \E k \in 1..Len(skipped) : skipped[k] = TestNames[i]
    /\ \A k \in 1..Len(failures) : failures[k] # TestNames[i]
    /\ \A k \in 1..Len(errors) : errors[k].test # TestNames[i]

C5_ExitZeroIffNonSkippedPassed ==
    rpc = "done" =>
        /\ exit_code \in {0, 1}
        /\ exit_code = 0 <=> \A i \in 1..Len(verdict) : verdict[i] \in {"pass", "skip"}

\* a finished run with passed and skipped scenarios only, and exit status 0
C5_Witness ==
    /\ rpc = "done"
    /\ exit_code = 0
    /\ \E i, j \in 1..Len(verdict) : verdict[i] = "pass" /\ verdict[j] = "skip"

\* C10: when the port cannot be opened (for no scenario of the run), the run
\* produces no report and does not end with the success status.
C10_UnavailableAborts ==
    Len(skipped) = NumTests => (~report /\ exit_code # 0)

\* the tests whose session is open
OpenSessions == {i \in 1..Len(ser) : ser[i] = "open"}

\* C12: at every moment of a run at most one session is open; a test method
\* runs (and so reads) only on the open session of its own test; when the
\* next setUp starts, and when the run reports, no session is open: the
\* session of every earlier test is closed whatever its verdict (pass,
\* failure, error), and a skipped test never had one.
C12_AtMostOneSessionOpen ==
    /\ Cardinality(OpenSessions) <= 1
    /\ rpc = "test" => (Len(ser) = idx /\ ser[idx] = "open")
    /\ rpc = "tearDown" => OpenSessions = {idx}
    /\ rpc \in {"setUp", "summary", "exit", "done"} => OpenSessions = {}
    /\ \A i \in 1..Len(verdict) :
          (i < Len(ser) \/ rpc \notin {"test", "tearDown"}) =>
              ser[i] = IF verdict[i] = "skip" THEN "unset" ELSE "closed"

\* a test method running on its open session after a test that passed, one
\* that failed and one that lost the device during its wait
C12_Witness ==
    /\ rpc = "test"
    /\ ser[idx] = "open"
    /\ \E i, j, k \in 1..(idx - 1) :
          /\ verdict[i] = "pass" /\ ser[i] = "closed"
          /\ verdict[j] = "fail" /\ ser[j] = "closed"
          /\ DisconnectedIn(k) /\ ser[k] = "closed"

(***************************************************************************)
(* Properties of the flash tool.                                           *)
(***************************************************************************)
IsPrefix(a, b) == Len(a) <= Len(b) /\ a = SubSeq(b, 1, Len(a))

\* the commands issued so far, in order
Commands == [k \in 1..Len(issued) |-> issued[k].cmd]

IsFlash(c) == c.cmd[Len(c.cmd)] = "flash"

\* the commands of action "all", in order
AllOrder ==
    << <<"idf.py", "--version">> >>
    \o (IF auto_config THEN <<>> ELSE << <<"idf.py", "menuconfig">> >>)
    \o << <<"idf.py", "build">>,
          <<"idf.py", "-p", port, "flash">>,
          <<"idf.py", "-p", port, "monitor">> >>

\* a command that exited with a non-zero status
Failed(c) == c.returncode \notin {0, -1}

\* a flash command is issued only after the build command of the invocation
\* exited with 0; action "all" issues its commands in the order configure,
\* build, flash, monitor; no command is issued after one that failed
IssuedInOrder ==
    /\ \A k \in 1..Len(issued) :
          IsFlash(issued[k]) =>
              \E j \in 1..(k - 1) :
                  issued[j] = [cmd |-> <<"idf.py", "build">>, returncode |-> 0]
    /\ action = "all" => IsPrefix(Commands, AllOrder)
    /\ \A k \in 1..Len(issued) : Failed(issued[k]) => k = Len(issued)

\* C13 (as stated): in the flash tool, whatever the action and the exit
\* statuses of the toolchain commands: a flash command is issued only after
\* the build command of the same invocation exited with status 0; in action
\* "all" the commands are issued in the order configure, build, flash,
\* monitor; and once a command has exited non-zero no later step is issued
\* and the process terminates with exit status 1.  (The commands run with
\* check=True are those after the first, idf.py --version.)
C13_FailedCommandExitsWithOne ==
    /\ IssuedInOrder
    /\ (\E k \in 2..Len(issued) : Failed(issued[k])) => status \in {-1, 1}

\* C13 (amended): the order holds as stated, and no command is issued after
\* one that exited non-zero; the process then terminates with exit status 1,
\* unless Ctrl-C reaches it after the command has returned and before
\* run_command exits: the interruption ends it with status 0 when caught in
\* main (130 during the environment check).
C13_FlashAfterBuildInOrder ==
    /\ []IssuedInOrder
    /\ [][(status = -1 /\ status' # -1 /\ \E k \in 1..Len(issued) : Failed(issued[k]))
            => \/ status' = 1
               \/ KeyboardInterrupt /\ status' \in {0, 130}]_vars

\* action "all" without --auto-config: configure and build succeeded, the
\* flash command failed, and the tool exited with 1 without monitoring
C13_Witness ==
    /\ action = "all"
    /\ Len(issued) = 4
    /\ issued[2] = [cmd |-> <<"idf.py", "menuconfig">>, returncode |-> 0]
    /\ issued[3] = [cmd |-> <<"idf.py", "build">>, returncode |-> 0]
    /\ IsFlash(issued[4])
    /\ Failed(issued[4])
    /\ fpc = "exited"
    /\ status = 1

=============================================================================
